---- MODULE Spec2Model ----
(***************************************************************************)
(* Model of pyloginsight/connection.py: the Credentials authentication     *)
(* handler (bearer token, login on 401/440, single resend) and the         *)
(* Connection verb methods that send through it.                           *)
(***************************************************************************)
EXTENDS Naturals, Sequences, FiniteSets, TLC

\* ------------------------------------------------------------- values

\* Python's None, and a header that is not in the header dictionary.
None == "<None>"
NoHeader == "<no header>"
\* A response body that has no 'sessionId' key.
NoField == "<no field>"

\* Number of distinct session ids the server hands out.
NumTokens == 2
Token(i) == "tok" \o ToString(i)
Tokens == {Token(i) : i \in 1..NumTokens}

\* What the JSON value under 'sessionId' can be: a string (also the empty
\* one) or null, which json() turns into None.
SessionIdValues == Tokens \cup {"", None}

Callers == {"main"}
ConnIds == {"conn1", "conn2"}
Verbs == {"GET", "POST", "PUT", "PATCH", "DELETE"}
Statuses == {200, 401, 440, 500}
Warnings == {NoHeader, "199 deprecated"}

APIV1 == "/api/v1"
DefaultPort == 9543

\* ------------------------------------------------------------- helpers

\* class ServerError(RuntimeError); class Unauthorized(ServerError)
IsInstance(exc, cls) ==
    \/ exc = cls
    \/ exc = "Unauthorized" /\ cls \in {"ServerError", "RuntimeError"}
    \/ exc = "ServerError" /\ cls = "RuntimeError"

\* Python truth value of a sessionId: None and '' are false.
Truthy(x) == x # None /\ x # ""

\* "%s" % x
Str(x) == IF x = None THEN "None" ELSE x

\* "Bearer %s" % self.sessionId
Bearer(sessionId) == "Bearer " \o Str(sessionId)

\* Variant: only 401 counts as an authentication failure.
IsAuthFailure_only401(status_code) == status_code = 401

\* Variant: every error status counts as an authentication failure.
IsAuthFailure_anyError(status_code) == status_code >= 400

\* status_code in [401, 440]
IsAuthFailure(status_code) == status_code \in {401, 440}

\* '{method}://{hostname}:{port}{apiv1}'
ApiRoot(hostname, port, ssl) ==
    [scheme |-> IF ssl THEN "https" ELSE "http",
     netloc |-> hostname \o ":" \o ToString(port),
     path   |-> APIV1]

\* Credentials.__init__
NewCredentials(username, password, provider, sessionId) ==
    [username |-> username, password |-> password,
     provider |-> provider, sessionId |-> sessionId]

\* Connection.__init__
NewConnection(hostname, port, ssl, verify, auth, existing_session) ==
    [_hostname |-> hostname, _port |-> port, _ssl |-> ssl, _verify |-> verify,
     _authprovider |-> auth, _requestsession |-> existing_session,
     _apiroot |-> ApiRoot(hostname, port, ssl)]

\* ------------------------------------------------------------- state

VARIABLES
    creds,     \* heap of Credentials objects: id -> fields
    conns,     \* heap of Connection objects: id -> fields
    pc,        \* per caller: where its verb call stands
    call,      \* per caller: the verb method's self and sendauthorization
    req,       \* per caller: the prepared request of the first attempt
    r,         \* per caller: the response to the first attempt
    prep,      \* per caller: the request get_session / handle_401 last built
    wire,      \* per caller: the exchanges with the server in this call
    result,    \* per caller: what the verb method returned or raised
    warned     \* per caller: the values passed to warnings.warn in this call

vars == <<creds, conns, pc, call, req, r, prep, wire, result, warned>>

Nothing == [nothing |-> TRUE]

Idle(t) == pc[t] = "idle"

Init ==
    /\ \E username \in {None, "admin"}, password \in {None, "secret"},
          sessionId \in {None, Token(1)} :
          creds = [c \in {"cred1"} |->
                     NewCredentials(username, password, "Local", sessionId)]
    /\ \E auth \in {None, "cred1"} :
          conns = [c \in {"conn1"} |->
                     NewConnection("li.example.com", DefaultPort, TRUE, TRUE, auth, "session1")]
    /\ pc = [t \in Callers |-> "idle"]
    /\ call = [t \in Callers |-> Nothing]
    /\ req = [t \in Callers |-> Nothing]
    /\ r = [t \in Callers |-> Nothing]
    /\ prep = [t \in Callers |-> Nothing]
    /\ wire = [t \in Callers |-> <<>>]
    /\ result = [t \in Callers |-> Nothing]
    /\ warned = [t \in Callers |-> <<>>]

\* --------------------------------------------------- requests, responses

\* One exchange with the server: the PreparedRequest it received, the way it
\* was sent ("session" is Session.send, which dispatches the response hooks;
\* "adapter" is response.connection.send, which does not), and what came
\* back (Nothing while the answer is outstanding).
Sent(via, request) == [via |-> via, request |-> request, response |-> Nothing]

\* Credentials.__call__: the bearer header when there is a session id, and
\* the response hook.
AuthCall(self, request) ==
    [request EXCEPT
        !.Authorization = IF Truthy(creds[self].sessionId)
                          THEN Bearer(creds[self].sessionId) ELSE @,
        !.hooks = Append(@, self)]

\* What Session.request prepares for a verb method: the url is
\* self._apiroot + url, auth is applied when it is not None.
Prepare(c, method, url, body, auth) ==
    LET p == [method |-> method,
              url |-> [conns[c]._apiroot EXCEPT !.path = @ \o url],
              Authorization |-> NoHeader,
              body |-> body,
              hooks |-> <<>>]
    IN IF auth # None THEN AuthCall(auth, p) ELSE p

\* Variant: sendauthorization is not looked at.
AuthArgument_always(c, sendauthorization) == conns[c]._authprovider

\* auth=self._authprovider if sendauthorization else None
AuthArgument(c, sendauthorization) ==
    IF sendauthorization THEN conns[c]._authprovider ELSE None

\* Variant: the copy keeps the Authorization header of the failed request.
LoginRequest_keepsAuth(self, request) ==
    [request EXCEPT
        !.method = "POST",
        !.url = [scheme |-> request.url.scheme, netloc |-> request.url.netloc,
                 path |-> APIV1 \o "/sessions"],
        !.body = [json |-> [username |-> creds[self].username,
                            password |-> creds[self].password,
                            provider |-> creds[self].provider]]]

\* get_session's login request: a copy of the previous request without
\* Authorization, as a POST of the credentials to /api/v1/sessions.
LoginRequest(self, request) ==
    [request EXCEPT
        !.Authorization = NoHeader,
        !.method = "POST",
        !.url = [scheme |-> request.url.scheme, netloc |-> request.url.netloc,
                 path |-> APIV1 \o "/sessions"],
        !.body = [json |-> [username |-> creds[self].username,
                            password |-> creds[self].password,
                            provider |-> creds[self].provider]]]

\* handle_401's resend: a copy of the original request with the bearer header
\* of the session id the Credentials hold now.
RetryRequest(self, request) ==
    [request EXCEPT !.Authorization = Bearer(creds[self].sessionId)]

\* authresponse.json()['sessionId'] raises: the body is not JSON, or it has
\* no such key.
ExtractRaises(response) == response.json \in {"<invalid>", NoField}

\* The bodies a server can answer with, by what json()['sessionId'] makes of
\* them.
LoginBodies == {"<invalid>", NoField} \cup SessionIdValues

IsLogin(request) == request.url.path = APIV1 \o "/sessions"

IsResponse(x) == "status_code" \in DOMAIN x
IsException(x) == "exception" \in DOMAIN x

\* The Credentials object whose handle_401 is hooked on caller t's request.
Self(t) == req[t].hooks[1]

Last(s) == s[Len(s)]

\* What the transport hands back for caller t's last send.
Reply(t) == Last(wire[t]).response

\* Caller t is in a send and its answer is there.
Answered(t, at) == pc[t] = at /\ Reply(t) # Nothing

\* Variant: the header is looked at on error responses only.
Warn_errorsOnly(response) ==
    IF response.Warning # NoHeader /\ response.status_code >= 400
    THEN <<response.Warning>> ELSE <<>>

\* if 'Warning' in r.headers: warnings.warn(r.headers.get('Warning'))
Warn(response) ==
    IF response.Warning # NoHeader THEN <<response.Warning>> ELSE <<>>

\* A verb method gets response back from the session, warns and returns it.
VerbReturns(t, response) ==
    /\ result' = [result EXCEPT ![t] = [kind |-> "return", value |-> response]]
    /\ warned' = [warned EXCEPT ![t] = @ \o Warn(response)]
    /\ pc' = [pc EXCEPT ![t] = "done"]

\* An exception leaves the session call and the verb method.
VerbRaises(t, exc, arg) ==
    /\ result' = [result EXCEPT ![t] = [kind |-> "raise", exc |-> exc, arg |-> arg]]
    /\ pc' = [pc EXCEPT ![t] = "done"]
    /\ UNCHANGED warned

\* ------------------------------------------------------------- actions

\* The session call of a verb method: prepare, apply auth, send.
Request(t, c, method, body, sendauthorization) ==
    /\ Idle(t)
    /\ c \in DOMAIN conns
    /\ LET p == Prepare(c, method, "/events", body, AuthArgument(c, sendauthorization))
       IN /\ req' = [req EXCEPT ![t] = p]
          /\ wire' = [wire EXCEPT ![t] = Append(@, Sent("session", p))]
    /\ call' = [call EXCEPT ![t] = [self |-> c, sendauthorization |-> sendauthorization]]
    /\ pc' = [pc EXCEPT ![t] = "sent"]
    /\ UNCHANGED <<creds, conns, r, prep, result, warned>>

\* The body of a request: the data or json argument of a verb method.
NoBody == [data |-> None]
Payload == [data |-> "payload"]

_get(t, c, sendauthorization) == Request(t, c, "GET", NoBody, sendauthorization)
_delete(t, c, sendauthorization) == Request(t, c, "DELETE", NoBody, sendauthorization)
_post(t, c, sendauthorization) == Request(t, c, "POST", Payload, sendauthorization)
_put(t, c, sendauthorization) == Request(t, c, "PUT", Payload, sendauthorization)
_patch(t, c, sendauthorization) == Request(t, c, "PATCH", Payload, sendauthorization)

\* The server answers the request caller t sent last, with one of the given
\* statuses and Warning headers and, to a login request, one of the given
\* bodies.
RespondWith(t, statuses, warnings, loginbodies) ==
    /\ pc[t] \in {"sent", "login", "resent"}
    /\ Reply(t) = Nothing
    /\ \E status \in statuses, warning \in warnings,
          body \in IF IsLogin(Last(wire[t]).request) THEN loginbodies ELSE {NoField} :
          wire' = [wire EXCEPT ![t][Len(wire[t])].response =
                      [status_code |-> status, Warning |-> warning, json |-> body,
                       request |-> Last(wire[t]).request, history |-> <<>>,
                       content_consumed |-> FALSE, closed |-> FALSE]]
    /\ UNCHANGED <<creds, conns, pc, call, req, r, prep, result, warned>>

\* The server answers the request it received last.
Respond(t) == RespondWith(t, Statuses, Warnings, LoginBodies)

\* The transport fails instead (timeout, DNS, TLS).
TransportFails(t) ==
    /\ pc[t] \in {"sent", "login", "resent"}
    /\ Reply(t) = Nothing
    /\ wire' = [wire EXCEPT ![t][Len(wire[t])].response = [exception |-> "ConnectionError"]]
    /\ UNCHANGED <<creds, conns, pc, call, req, r, prep, result, warned>>

\* The first response comes back to a request sent with auth=None: no hook
\* is registered, the verb method gets the response as it is.
ResponseUnhooked(t) ==
    /\ Answered(t, "sent")
    /\ IsResponse(Reply(t))
    /\ req[t].hooks = <<>>
    /\ r' = [r EXCEPT ![t] = Reply(t)]
    /\ VerbReturns(t, Reply(t))
    /\ UNCHANGED <<creds, conns, call, req, prep, wire>>

\* handle_401, lines 87-88: any status other than 401 and 440 is returned.
handle_401_return(t) ==
    /\ Answered(t, "sent")
    /\ IsResponse(Reply(t))
    /\ req[t].hooks # <<>>
    /\ ~IsAuthFailure(Reply(t).status_code)
    /\ r' = [r EXCEPT ![t] = Reply(t)]
    /\ VerbReturns(t, Reply(t))
    /\ UNCHANGED <<creds, conns, call, req, prep, wire>>

\* Variant: the failed response is left as it came.
handle_401_drain_open(t) ==
    /\ Answered(t, "sent")
    /\ IsResponse(Reply(t))
    /\ req[t].hooks # <<>>
    /\ IsAuthFailure(Reply(t).status_code)
    /\ r' = [r EXCEPT ![t] = Reply(t)]
    /\ pc' = [pc EXCEPT ![t] = "h401"]
    /\ UNCHANGED <<creds, conns, call, req, prep, wire, result, warned>>

\* handle_401, lines 90-92: on 401 or 440 the body is drained and the
\* response closed.
handle_401_drain(t) ==
    /\ Answered(t, "sent")
    /\ IsResponse(Reply(t))
    /\ req[t].hooks # <<>>
    /\ IsAuthFailure(Reply(t).status_code)
    /\ r' = [r EXCEPT ![t] = [Reply(t) EXCEPT !.content_consumed = TRUE,
                                               !.closed = TRUE]]
    /\ pc' = [pc EXCEPT ![t] = "h401"]
    /\ UNCHANGED <<creds, conns, call, req, prep, wire, result, warned>>

\* Variant: only a Credentials without both counts as incomplete.
MissingCredentials_both(self) ==
    creds[self].username = None /\ creds[self].password = None

\* if self.username is None or self.password is None
MissingCredentials(self) ==
    creds[self].username = None \/ creds[self].password = None

\* get_session, lines 55-56: no username or no password.
get_session_missing(t) ==
    /\ pc[t] = "h401"
    /\ MissingCredentials(Self(t))
    /\ VerbRaises(t, "RuntimeError", Nothing)
    /\ UNCHANGED <<creds, conns, call, req, r, prep, wire>>

\* Variant: the login request is made of the failed request itself, not of a
\* copy of it.
get_session_send_inplace(t) ==
    /\ pc[t] = "h401"
    /\ ~MissingCredentials(Self(t))
    /\ LET p == LoginRequest(Self(t), r[t].request)
       IN /\ prep' = [prep EXCEPT ![t] = p]
          /\ req' = [req EXCEPT ![t] = p]
          /\ r' = [r EXCEPT ![t].request = p]
          /\ wire' = [wire EXCEPT ![t] = Append(@, Sent("adapter", p))]
    /\ pc' = [pc EXCEPT ![t] = "login"]
    /\ UNCHANGED <<creds, conns, call, result, warned>>

\* get_session, lines 57-78: build the login request and send it on the
\* previous response's connection.
get_session_send(t) ==
    /\ pc[t] = "h401"
    /\ ~MissingCredentials(Self(t))
    /\ LET p == LoginRequest(Self(t), r[t].request)
       IN /\ prep' = [prep EXCEPT ![t] = p]
          /\ wire' = [wire EXCEPT ![t] = Append(@, Sent("adapter", p))]
    /\ pc' = [pc EXCEPT ![t] = "login"]
    /\ UNCHANGED <<creds, conns, call, req, r, result, warned>>

\* Variant: a failed login forgets the session id.
get_session_fail_clears(t) ==
    /\ Answered(t, "login")
    /\ IsResponse(Reply(t))
    /\ ExtractRaises(Reply(t))
    /\ creds' = [creds EXCEPT ![Self(t)].sessionId = None]
    /\ VerbRaises(t, "Unauthorized", Reply(t))
    /\ UNCHANGED <<conns, call, req, r, prep, wire>>

\* get_session, lines 79-82: the login response yields no sessionId.
get_session_fail(t) ==
    /\ Answered(t, "login")
    /\ IsResponse(Reply(t))
    /\ ExtractRaises(Reply(t))
    /\ VerbRaises(t, "Unauthorized", Reply(t))
    /\ UNCHANGED <<creds, conns, call, req, r, prep, wire>>

\* get_session line 80 and handle_401 line 94: the sessionId of the login
\* response is stored in the Credentials.
get_session_ok(t) ==
    /\ Answered(t, "login")
    /\ IsResponse(Reply(t))
    /\ ~ExtractRaises(Reply(t))
    /\ creds' = [creds EXCEPT ![Self(t)].sessionId = Reply(t).json]
    /\ pc' = [pc EXCEPT ![t] = "granted"]
    /\ UNCHANGED <<conns, call, req, r, prep, wire, result, warned>>

\* handle_401, lines 97-99: copy the original request, set the bearer header,
\* send it again.
handle_401_resend(t) ==
    /\ pc[t] = "granted"
    /\ LET p == RetryRequest(Self(t), r[t].request)
       IN /\ prep' = [prep EXCEPT ![t] = p]
          /\ wire' = [wire EXCEPT ![t] = Append(@, Sent("adapter", p))]
    /\ pc' = [pc EXCEPT ![t] = "resent"]
    /\ UNCHANGED <<creds, conns, call, req, r, result, warned>>

\* Variant: the first response is handed on instead of the new one.
Retried_first(t) == r[t]

\* _r after lines 100-101: the first response in its history, the copied
\* request as its request.
Retried(t) == [Reply(t) EXCEPT !.history = Append(@, r[t]), !.request = prep[t]]

\* Variant: a session id that did not work is forgotten.
handle_401_unauthorized_clears(t) ==
    /\ Answered(t, "resent")
    /\ IsResponse(Reply(t))
    /\ IsAuthFailure(Reply(t).status_code)
    /\ creds' = [creds EXCEPT ![Self(t)].sessionId = None]
    /\ VerbRaises(t, "Unauthorized", Retried(t))
    /\ UNCHANGED <<conns, call, req, r, prep, wire>>

\* Variant: a resend that fails again starts handle_401 over.
handle_401_unauthorized_loops(t) ==
    /\ Answered(t, "resent")
    /\ IsResponse(Reply(t))
    /\ IsAuthFailure(Reply(t).status_code)
    /\ pc' = [pc EXCEPT ![t] = "h401"]
    /\ UNCHANGED <<creds, conns, call, req, r, prep, wire, result, warned>>

\* handle_401, lines 103-104: the resent request failed again.
handle_401_unauthorized(t) ==
    /\ Answered(t, "resent")
    /\ IsResponse(Reply(t))
    /\ IsAuthFailure(Reply(t).status_code)
    /\ VerbRaises(t, "Unauthorized", Retried(t))
    /\ UNCHANGED <<creds, conns, call, req, r, prep, wire>>

\* Variant: a server error in answer to the resent request is raised.
handle_401_retried_raises(t) ==
    /\ Answered(t, "resent")
    /\ IsResponse(Reply(t))
    /\ ~IsAuthFailure(Reply(t).status_code)
    /\ IF Reply(t).status_code >= 500
       THEN VerbRaises(t, "ServerError", Retried(t))
       ELSE VerbReturns(t, Retried(t))
    /\ UNCHANGED <<creds, conns, call, req, r, prep, wire>>

\* handle_401, lines 105-106: the response to the resent request is returned.
handle_401_retried(t) ==
    /\ Answered(t, "resent")
    /\ IsResponse(Reply(t))
    /\ ~IsAuthFailure(Reply(t).status_code)
    /\ VerbReturns(t, Retried(t))
    /\ UNCHANGED <<creds, conns, call, req, r, prep, wire>>

\* Variant: the send of the login request sits inside the try of get_session.
SendRaises_unauthorized(t) ==
    /\ pc[t] \in {"sent", "login", "resent"}
    /\ Reply(t) # Nothing
    /\ IsException(Reply(t))
    /\ VerbRaises(t, IF pc[t] = "login" THEN "Unauthorized" ELSE Reply(t).exception,
                  Nothing)
    /\ UNCHANGED <<creds, conns, call, req, r, prep, wire>>

\* A send raised: nothing catches it (the except of get_session covers only
\* the reading of the login response).
SendRaises(t) ==
    /\ pc[t] \in {"sent", "login", "resent"}
    /\ Reply(t) # Nothing
    /\ IsException(Reply(t))
    /\ VerbRaises(t, Reply(t).exception, Nothing)
    /\ UNCHANGED <<creds, conns, call, req, r, prep, wire>>

\* The caller has its result; its next call starts afresh.
Return(t) ==
    /\ pc[t] = "done"
    /\ pc' = [pc EXCEPT ![t] = "idle"]
    /\ call' = [call EXCEPT ![t] = Nothing]
    /\ req' = [req EXCEPT ![t] = Nothing]
    /\ r' = [r EXCEPT ![t] = Nothing]
    /\ prep' = [prep EXCEPT ![t] = Nothing]
    /\ wire' = [wire EXCEPT ![t] = <<>>]
    /\ result' = [result EXCEPT ![t] = Nothing]
    /\ warned' = [warned EXCEPT ![t] = <<>>]
    /\ UNCHANGED <<creds, conns>>

\* Connection.copy_connection: a new Connection with the fields of an
\* existing one, its auth provider and its requests session included.
CopyOf(connection) ==
    NewConnection(connection._hostname, connection._port, connection._ssl,
                  connection._verify, connection._authprovider,
                  connection._requestsession)

\* Variant: the copy gets a Credentials object of its own, with the fields of
\* the original's.
copy_connection_owncreds(c, new) ==
    /\ c \in DOMAIN conns
    /\ new \in ConnIds \ DOMAIN conns
    /\ LET auth == conns[c]._authprovider
           own == IF auth = None THEN None ELSE "cred2"
       IN /\ conns' = [x \in DOMAIN conns \cup {new} |->
                         IF x = new
                         THEN [CopyOf(conns[c]) EXCEPT !._authprovider = own]
                         ELSE conns[x]]
          /\ creds' = IF auth = None THEN creds
                      ELSE [x \in DOMAIN creds \cup {own} |->
                              IF x = own THEN creds[auth] ELSE creds[x]]
    /\ UNCHANGED <<pc, call, req, r, prep, wire, result, warned>>

copy_connection(c, new) ==
    /\ c \in DOMAIN conns
    /\ new \in ConnIds \ DOMAIN conns
    /\ conns' = [x \in DOMAIN conns \cup {new} |->
                   IF x = new THEN CopyOf(conns[c]) ELSE conns[x]]
    /\ UNCHANGED <<creds, pc, call, req, r, prep, wire, result, warned>>

Next ==
    \/ \E t \in Callers, c \in ConnIds, sendauthorization \in BOOLEAN :
          \/ _get(t, c, sendauthorization)
          \/ _post(t, c, sendauthorization)
          \/ _put(t, c, sendauthorization)
          \/ _patch(t, c, sendauthorization)
          \/ _delete(t, c, sendauthorization)
    \/ \E t \in Callers :
          \/ Respond(t)
          \/ TransportFails(t)
          \/ ResponseUnhooked(t)
          \/ handle_401_return(t)
          \/ handle_401_drain(t)
          \/ get_session_missing(t)
          \/ get_session_send(t)
          \/ get_session_fail(t)
          \/ get_session_ok(t)
          \/ handle_401_resend(t)
          \/ handle_401_unauthorized(t)
          \/ handle_401_retried(t)
          \/ SendRaises(t)
          \/ Return(t)
    \/ \E c \in ConnIds, new \in ConnIds : copy_connection(c, new)

Spec == Init /\ [][Next]_vars

\* ------------------------------------------------------- concurrent use

\* Two threads call verb methods of one Connection, hence share one
\* Credentials object, which has no lock: every read and write of sessionId
\* is a step of its own between which the other thread may run.
Threads == {"main", "worker"}

InitThreads ==
    /\ \E sessionId \in {None, Token(1)} :
          creds = [c \in {"cred1"} |->
                     NewCredentials("admin", "secret", "Local", sessionId)]
    /\ conns = [c \in {"conn1"} |->
                  NewConnection("li.example.com", DefaultPort, TRUE, TRUE,
                                "cred1", "session1")]
    /\ pc = [t \in Threads |-> "idle"]
    /\ call = [t \in Threads |-> Nothing]
    /\ req = [t \in Threads |-> Nothing]
    /\ r = [t \in Threads |-> Nothing]
    /\ prep = [t \in Threads |-> Nothing]
    /\ wire = [t \in Threads |-> <<>>]
    /\ result = [t \in Threads |-> Nothing]
    /\ warned = [t \in Threads |-> <<>>]

\* The server's answers under concurrent use: the session is valid or it is
\* not, a login is granted a token or it is not.
RespondToThread(t) ==
    RespondWith(t, {200, 401}, {NoHeader}, Tokens \cup {NoField})

\* What thread t does once its verb method is called, and what the server
\* does for it.
ThreadStep(t) ==
    \/ RespondToThread(t)
    \/ handle_401_return(t)
    \/ handle_401_drain(t)
    \/ get_session_send(t)
    \/ get_session_fail(t)
    \/ get_session_ok(t)
    \/ handle_401_resend(t)
    \/ handle_401_unauthorized(t)
    \/ handle_401_retried(t)

\* Each thread makes one verb call.
NextThreads ==
    \E t \in Threads :
        \/ _get(t, "conn1", TRUE)
        \/ ThreadStep(t)

SpecThreads == InitThreads /\ [][NextThreads]_vars

\* Every thread gets to run and the server answers every request.
FairSpecThreads ==
    SpecThreads /\ \A t \in Threads : WF_vars(ThreadStep(t))

\* ------------------------------------------------------------- claims

\* Caller t's request went out with the Credentials as its auth handler.
Hooked(t) == pc[t] # "idle" /\ req[t].hooks # <<>>

\* The places in caller t's exchanges of the login requests, and of the
\* requests after the first attempt that are no login requests.
LoginsSent(t) == {i \in 1..Len(wire[t]) : IsLogin(wire[t][i].request)}
Resends(t) == {i \in 2..Len(wire[t]) : ~IsLogin(wire[t][i].request)}

\* Exchange i of caller t was answered with one of the given statuses.
AnsweredWith(t, i, statuses) ==
    /\ i <= Len(wire[t])
    /\ wire[t][i].response # Nothing
    /\ IsResponse(wire[t][i].response)
    /\ wire[t][i].response.status_code \in statuses

\* Exchange i of caller t is a login that was answered with a sessionId.
LoginGranted(t, i) ==
    /\ i <= Len(wire[t])
    /\ IsLogin(wire[t][i].request)
    /\ wire[t][i].response # Nothing
    /\ IsResponse(wire[t][i].response)
    /\ wire[t][i].response.json \in SessionIdValues

Raised(t, exc) == result[t].kind = "raise" /\ result[t].exc = exc

\* The response the server gave, as the caller holds it: the same status,
\* headers and body.
SameResponse(held, served) ==
    /\ held.status_code = served.status_code
    /\ held.Warning = served.Warning
    /\ held.json = served.json

\* C1: a request sent with the Credentials as auth handler causes at most one
\* login request and at most one resend; when the first attempt is answered
\* 401 or 440, the login yields a sessionId and the resend is answered 401 or
\* 440 again, the call is over with Unauthorized after exactly one login and
\* exactly one resend.
C1_ResentAtMostOnce ==
    \A t \in Callers : Hooked(t) =>
        /\ Cardinality(LoginsSent(t)) <= 1
        /\ Cardinality(Resends(t)) <= 1
        /\ Len(wire[t]) <= 3
        /\ (/\ AnsweredWith(t, 1, {401, 440})
            /\ LoginGranted(t, 2)
            /\ AnsweredWith(t, 3, {401, 440})
            /\ pc[t] # "resent")
           => /\ pc[t] = "done"
              /\ Raised(t, "Unauthorized")
              /\ Cardinality(LoginsSent(t)) = 1
              /\ Cardinality(Resends(t)) = 1

C1_Witness ==
    \E t \in Callers :
        /\ Hooked(t) /\ pc[t] = "done"
        /\ AnsweredWith(t, 1, {401, 440})
        /\ LoginGranted(t, 2)
        /\ AnsweredWith(t, 3, {401, 440})
        /\ Raised(t, "Unauthorized")

\* C2: a request that went out without a token, with username and password
\* configured, whose first attempt is answered 401 and whose login is
\* answered with a sessionId, is resent; when the resend is answered 200 the
\* verb method returns that response, and exactly one login request was made.
C2_LoginThenSuccess ==
    \A t \in Callers :
        (/\ Hooked(t) /\ pc[t] = "done"
         /\ req[t].Authorization = NoHeader
         /\ ~MissingCredentials(Self(t))
         /\ AnsweredWith(t, 1, {401})
         /\ LoginGranted(t, 2))
        => /\ Len(wire[t]) = 3
           /\ Resends(t) = {3}
           /\ LoginsSent(t) = {2}
           /\ AnsweredWith(t, 3, {200})
              => /\ result[t].kind = "return"
                 /\ SameResponse(result[t].value, wire[t][3].response)
                 /\ result[t].value.status_code = 200
                 /\ result[t].value.request = wire[t][3].request

C2_Witness ==
    \E t \in Callers :
        /\ Hooked(t) /\ pc[t] = "done"
        /\ req[t].Authorization = NoHeader
        /\ AnsweredWith(t, 1, {401})
        /\ LoginGranted(t, 2)
        /\ AnsweredWith(t, 3, {200})
        /\ result[t].kind = "return"

\* Exchange i of caller t is a login whose answer is malformed, has no
\* sessionId, or has a status other than 200.
LoginFailed(t, i) ==
    /\ i <= Len(wire[t])
    /\ IsLogin(wire[t][i].request)
    /\ wire[t][i].response # Nothing
    /\ IsResponse(wire[t][i].response)
    /\ \/ wire[t][i].response.json \in {"<invalid>", NoField}
       \/ wire[t][i].response.status_code # 200

\* C3: when the first attempt is answered 401 or 440 and the login response
\* is malformed, has no sessionId or has a status other than 200, the call
\* is over with Unauthorized and the original request is not resent.
C3_LoginFailureIsTerminal ==
    \A t \in Callers :
        (/\ Hooked(t)
         /\ AnsweredWith(t, 1, {401, 440})
         /\ LoginFailed(t, 2)
         /\ pc[t] # "login")
        => /\ pc[t] = "done"
           /\ Raised(t, "Unauthorized")
           /\ Resends(t) = {}

\* C4: with no username or no password, a 401 or 440 ends the call with a
\* RuntimeError that is no Unauthorized, and the server has received the
\* first attempt only: no login request, no resend.
C4_MissingCredentials ==
    \A t \in Callers :
        (Hooked(t) /\ (creds[Self(t)].username = None \/ creds[Self(t)].password = None))
        => /\ LoginsSent(t) = {}
           /\ Resends(t) = {}
           /\ (AnsweredWith(t, 1, {401, 440}) /\ pc[t] \notin {"sent", "h401"})
              => /\ pc[t] = "done"
                 /\ result[t].kind = "raise"
                 /\ IsInstance(result[t].exc, "RuntimeError")
                 /\ ~IsInstance(result[t].exc, "Unauthorized")
                 /\ Len(wire[t]) = 1

C4_Witness ==
    \E t \in Callers :
        /\ Hooked(t) /\ pc[t] = "done"
        /\ creds[Self(t)].username = None
        /\ AnsweredWith(t, 1, {401, 440})
        /\ Raised(t, "RuntimeError")

\* C5: when the first attempt is answered with a status other than 401 and
\* 440, the step that takes the response returns that very response, sends
\* nothing more and leaves every Credentials' sessionId as it was.
C5_OtherStatusPassesThrough ==
    [][\A t \in Callers :
         (/\ Hooked(t) /\ pc[t] = "sent"
          /\ AnsweredWith(t, 1, Statuses \ {401, 440})
          /\ pc'[t] # pc[t])
         => /\ pc'[t] = "done"
            /\ result'[t] = [kind |-> "return", value |-> wire[t][1].response]
            /\ wire'[t] = wire[t]
            /\ Len(wire[t]) = 1
            /\ creds' = creds]_vars

C5_Witness ==
    \E t \in Callers :
        /\ Hooked(t) /\ pc[t] = "done"
        /\ AnsweredWith(t, 1, {500})
        /\ result[t].kind = "return"
        /\ creds[Self(t)].sessionId = Token(1)

\* C6: whatever verb method ran and whatever the status, a verb method that
\* returns a response has warned exactly the value of its Warning header when
\* it has one and nothing when it has none, and the response it returns is
\* the one the server gave for the request sent last.
C6_WarningSurfaced ==
    \A t \in Callers :
        (pc[t] = "done" /\ result[t].kind = "return")
        => /\ req[t].method \in Verbs
           /\ SameResponse(result[t].value, Reply(t))
           /\ result[t].value.Warning # NoHeader
                 => warned[t] = <<result[t].value.Warning>>
           /\ result[t].value.Warning = NoHeader => warned[t] = <<>>

C6_Witness ==
    \E t \in Callers :
        /\ pc[t] = "done" /\ result[t].kind = "return"
        /\ req[t].method = "PATCH"
        /\ result[t].value.status_code = 200
        /\ result[t].value.Warning # NoHeader
        /\ warned[t] = <<result[t].value.Warning>>

\* C7: all Connections made by copy_connection hold the same requests session
\* and the same Credentials object as the one they were copied from; once a
\* login through one of them has stored a sessionId, the Credentials of every
\* Connection hold it, and it is the token a verb method of any Connection
\* attaches, as a bearer header, to its next request.
C7_LoginVisibleToCopy ==
    [][/\ \A c1, c2 \in DOMAIN conns' :
             /\ conns'[c1]._authprovider = conns'[c2]._authprovider
             /\ conns'[c1]._requestsession = conns'[c2]._requestsession
       /\ \A t \in Callers :
             (pc[t] = "login" /\ pc'[t] = "granted")
             => \A c \in DOMAIN conns' :
                   creds'[conns'[c]._authprovider].sessionId = Reply(t).json
       /\ \A t \in Callers :
             (/\ pc[t] = "idle" /\ pc'[t] = "sent"
              /\ call'[t].sendauthorization
              /\ conns[call'[t].self]._authprovider # None)
             => \A c \in DOMAIN conns :
                   creds[conns[c]._authprovider].sessionId # None
                   => req'[t].Authorization =
                         Bearer(creds[conns[c]._authprovider].sessionId)
      ]_vars

\* The same for the session ids that Credentials.__call__ takes for one (the
\* non-empty strings): these every Connection attaches, whichever Connection
\* the login that stored them went through.
CopySharesCredentials ==
    [][/\ \A c1, c2 \in DOMAIN conns' :
             /\ conns'[c1]._authprovider = conns'[c2]._authprovider
             /\ conns'[c1]._requestsession = conns'[c2]._requestsession
       /\ \A t \in Callers :
             (pc[t] = "login" /\ pc'[t] = "granted")
             => \A c \in DOMAIN conns' :
                   creds'[conns'[c]._authprovider].sessionId = Reply(t).json
       /\ \A t \in Callers :
             (/\ pc[t] = "idle" /\ pc'[t] = "sent"
              /\ call'[t].sendauthorization
              /\ conns[call'[t].self]._authprovider # None)
             => \A c \in DOMAIN conns :
                   Truthy(creds[conns[c]._authprovider].sessionId)
                   => req'[t].Authorization =
                         Bearer(creds[conns[c]._authprovider].sessionId)
      ]_vars

\* A login through conn1 has stored a token and conn2's Credentials hold it.
CopySharesCredentials_Witness ==
    \E t \in Callers :
        /\ DOMAIN conns = ConnIds
        /\ Hooked(t) /\ pc[t] = "done"
        /\ call[t].self = "conn1"
        /\ LoginGranted(t, 2)
        /\ wire[t][2].response.json = Token(2)
        /\ creds[conns["conn2"]._authprovider].sessionId = Token(2)

\* C8: once the login of a call has been answered with a sessionId, the
\* Credentials' sessionId is that value, whatever it was before, and it still
\* is when the call is over, also when the resend was answered 401 or 440.
C8_TokenStored ==
    \A t \in Callers :
        (/\ Hooked(t)
         /\ LoginGranted(t, 2)
         /\ pc[t] \in {"granted", "resent", "done"})
        => creds[Self(t)].sessionId = wire[t][2].response.json

C8_Witness ==
    \E t \in Callers :
        /\ Hooked(t) /\ pc[t] = "done"
        /\ req[t].Authorization = Bearer(Token(1))
        /\ LoginGranted(t, 2)
        /\ wire[t][2].response.json = Token(2)
        /\ AnsweredWith(t, 3, {401, 440})
        /\ Raised(t, "Unauthorized")
        /\ creds[Self(t)].sessionId = Token(2)

\* C9: the sessionId of a Credentials is always absent or a non-empty string,
\* and once it is set no step makes it absent again.
C9_TokenAbsentOrNonEmpty ==
    [][\A c \in DOMAIN creds' :
          /\ creds'[c].sessionId = None \/ creds'[c].sessionId # ""
          /\ (c \in DOMAIN creds /\ creds[c].sessionId # None)
             => creds'[c].sessionId # None]_vars

\* Caller t's verb method runs with sendauthorization false or on a
\* Connection without auth provider.
Unauthenticated(t) ==
    \/ ~call[t].sendauthorization
    \/ conns[call[t].self]._authprovider = None

\* C10: a verb method called with sendauthorization false, or on a Connection
\* without auth provider, sends one request with no Authorization header and
\* no response hook; whatever its answer (401 and 440 too), that answer is
\* what the method returns, nothing more is sent, and no Credentials'
\* sessionId changes while the call runs.
C10_NoAuthHandler ==
    [][\A t \in Callers :
          (pc'[t] # "idle" /\ Unauthenticated(t)')
          => /\ req'[t].Authorization = NoHeader
             /\ req'[t].hooks = <<>>
             /\ Len(wire'[t]) = 1
             /\ LoginsSent(t)' = {}
             /\ (pc'[t] = "done" /\ IsResponse(wire'[t][1].response))
                => result'[t] = [kind |-> "return", value |-> wire'[t][1].response]
             /\ pc[t] # "idle" => creds' = creds]_vars

C10_Witness ==
    \E t \in Callers :
        /\ pc[t] = "done"
        /\ ~call[t].sendauthorization
        /\ conns[call[t].self]._authprovider # None
        /\ AnsweredWith(t, 1, {401, 440})
        /\ result[t] = [kind |-> "return", value |-> wire[t][1].response]
        /\ creds[conns[call[t].self]._authprovider].sessionId = Token(1)

\* Caller t's verb method has just handed its request to the session, with
\* the Credentials of its Connection as auth handler.
FirstAttemptSent(t) ==
    /\ pc[t] = "idle" /\ pc'[t] = "sent"
    /\ call'[t].sendauthorization
    /\ conns[call'[t].self]._authprovider # None

\* C11: the first attempt of a request sent through the Credentials carries
\* Authorization: Bearer <sessionId> of the Credentials' current sessionId
\* exactly when the sessionId is set (is not None), and no Authorization
\* header when it is not set.
C11_BearerWhenSet ==
    [][\A t \in Callers :
          FirstAttemptSent(t)
          => LET sid == creds[conns[call'[t].self]._authprovider].sessionId
             IN /\ wire'[t] = <<Sent("session", req'[t])>>
                /\ req'[t].Authorization =
                      IF sid # None THEN Bearer(sid) ELSE NoHeader]_vars

\* The same with "set" read the way Credentials.__call__ reads it (if
\* self.sessionId): the header is there exactly for a non-empty sessionId.
BearerWhenTruthy ==
    [][\A t \in Callers :
          FirstAttemptSent(t)
          => LET sid == creds[conns[call'[t].self]._authprovider].sessionId
             IN /\ wire'[t] = <<Sent("session", req'[t])>>
                /\ req'[t].Authorization =
                      IF Truthy(sid) THEN Bearer(sid) ELSE NoHeader]_vars

\* C12: a login request carries no Authorization header, also when the
\* failed request carried one, and goes out on the connection of the failed
\* response, not through the session and its hooks; whatever status its
\* answer has, the call sends no second login request.
C12_LoginUnauthenticated ==
    \A t \in Callers : Hooked(t) =>
        /\ Cardinality(LoginsSent(t)) <= 1
        /\ \A i \in LoginsSent(t) :
              /\ i = 2
              /\ wire[t][i].via = "adapter"
              /\ wire[t][i].request.Authorization = NoHeader
              /\ (AnsweredWith(t, i, Statuses) /\ pc[t] # "login")
                 => pc[t] \in {"granted", "resent", "done"}

C12_Witness ==
    \E t \in Callers :
        /\ Hooked(t) /\ pc[t] = "done"
        /\ req[t].Authorization = Bearer(Token(1))
        /\ LoginsSent(t) = {2}
        /\ wire[t][2].request.Authorization = NoHeader
        /\ AnsweredWith(t, 2, {401, 440})

\* Exchange i of caller t ended in a transport error.
SendFailed(t, i) ==
    /\ i <= Len(wire[t])
    /\ wire[t][i].response # Nothing
    /\ IsException(wire[t][i].response)

\* C14: a transport error at any send of a call (the first attempt, the
\* login, the resend) is the last thing the call sends, and the call ends
\* raising that same error: it is not turned into Unauthorized and the call
\* does not return a response.
C14_TransportErrorPropagates ==
    \A t \in Callers : \A i \in 1..Len(wire[t]) :
        SendFailed(t, i) =>
            /\ i = Len(wire[t])
            /\ pc[t] \in {"sent", "login", "resent", "done"}
            /\ pc[t] = "done" =>
                  /\ result[t].kind = "raise"
                  /\ result[t].exc = wire[t][i].response.exception
                  /\ result[t].exc # "Unauthorized"

C14_Witness ==
    \E t \in Callers :
        /\ pc[t] = "done"
        /\ AnsweredWith(t, 1, {401, 440})
        /\ SendFailed(t, 2)
        /\ IsLogin(wire[t][2].request)
        /\ Raised(t, "ConnectionError")

\* C16: the resent request is the original request (method, url, body) with
\* the Authorization header replaced by the bearer header of the token the
\* login returned; the original request is the same before and after the
\* login request was built from it.
C16_ResendIsCopy ==
    \A t \in Callers : Hooked(t) =>
        /\ Len(wire[t]) >= 2 =>
              /\ req[t] = wire[t][1].request
              /\ r[t].request = wire[t][1].request
        /\ \A i \in Resends(t) :
              /\ LoginGranted(t, 2)
              /\ wire[t][i].request =
                    [wire[t][1].request EXCEPT
                        !.Authorization = Bearer(wire[t][2].response.json)]

C16_Witness ==
    \E t \in Callers :
        /\ Hooked(t)
        /\ wire[t][1].request.Authorization = Bearer(Token(1))
        /\ wire[t][1].request.method = "POST"
        /\ LoginGranted(t, 2)
        /\ wire[t][2].response.json = Token(2)
        /\ Resends(t) = {3}
        /\ wire[t][3].request.Authorization = Bearer(Token(2))
        /\ wire[t][3].request.body = Payload

\* The failed first response, as handle_401 holds it, is read to the end and
\* closed.
Released(t) ==
    /\ r[t] # Nothing
    /\ SameResponse(r[t], wire[t][1].response)
    /\ r[t].content_consumed
    /\ r[t].closed

\* C17: a first response with status 401 or 440 is drained and closed before
\* anything else is sent for the call (the login, the resend) and before the
\* call ends, on the paths that end in RuntimeError or Unauthorized too.
C17_FailedResponseReleased ==
    /\ [](\A t \in Callers :
            (Hooked(t) /\ AnsweredWith(t, 1, {401, 440}) /\ pc[t] # "sent")
            => Released(t))
    /\ [][\A t \in Callers :
            (Hooked(t) /\ Len(wire'[t]) > Len(wire[t]))
            => Released(t)]_vars

C17_Witness ==
    \E t \in Callers :
        /\ Hooked(t) /\ pc[t] = "done"
        /\ AnsweredWith(t, 1, {440})
        /\ Raised(t, "RuntimeError")
        /\ Len(wire[t]) = 1
        /\ Released(t)

\* C18: after a first response 401 or 440 and a login that yielded a
\* sessionId, a response to the resent request with any status other than
\* 401 and 440 (an error status too) is what the verb method returns: no
\* exception, no second login, no second resend.
C18_ResendAnswerReturned ==
    \A t \in Callers :
        ( /\ Hooked(t) /\ pc[t] = "done"
          /\ AnsweredWith(t, 1, {401, 440})
          /\ LoginGranted(t, 2)
          /\ AnsweredWith(t, 3, Statuses \ {401, 440}) )
        => /\ result[t].kind = "return"
           /\ SameResponse(result[t].value, wire[t][3].response)
           /\ Len(wire[t]) = 3
           /\ LoginsSent(t) = {2}
           /\ Resends(t) = {3}

C18_Witness ==
    \E t \in Callers :
        /\ Hooked(t) /\ pc[t] = "done"
        /\ AnsweredWith(t, 1, {401, 440})
        /\ LoginGranted(t, 2)
        /\ AnsweredWith(t, 3, {500})
        /\ result[t].kind = "return"
        /\ result[t].value.status_code = 500

\* C19: when a verb call is over, the Warning header of every response
\* received during the call (the first 401 or 440 and the login response
\* too) has been given to warnings.warn.
C19_EveryWarningSurfaced ==
    \A t \in Callers : pc[t] = "done" =>
        \A i \in 1..Len(wire[t]) :
            ( /\ IsResponse(wire[t][i].response)
              /\ wire[t][i].response.Warning # NoHeader )
            => \E j \in 1..Len(warned[t]) :
                  warned[t][j] = wire[t][i].response.Warning

\* The login step of caller t ends the call with an error: credentials are
\* missing, the login response has no sessionId, or the login send failed.
LoginStepFails(t) ==
    /\ Hooked(t)
    /\ pc[t] \in {"h401", "login"}
    /\ pc'[t] = "done"

\* C20: when the login step ends in an error (missing credentials, a login
\* response without sessionId, a transport error on the login request), the
\* sessionId of the Credentials keeps the value it had.
C20_FailedLoginKeepsToken ==
    [][\A t \in Callers :
          LoginStepFails(t)
          => /\ result'[t].kind = "raise"
             /\ creds' = creds]_vars

C20_Witness ==
    \E t \in Callers :
        /\ Hooked(t) /\ pc[t] = "done"
        /\ req[t].Authorization = Bearer(Token(1))
        /\ LoginFailed(t, 2)
        /\ Len(wire[t]) = 2
        /\ Raised(t, "Unauthorized")
        /\ creds[Self(t)].sessionId = Token(1)

C15_ResendCarriesOwnToken ==
    \A t \in Threads : \A i \in Resends(t) :
        /\ LoginGranted(t, 2)
        /\ wire[t][i].request.Authorization = Bearer(wire[t][2].response.json)

====
